---- MODULE Spec2Model ----
(***************************************************************************)
(* The asynchronous content-generation pipeline of coach/views.py and      *)
(* coach/services.py: the per-user sliding-window rate limiter, the        *)
(* GenerationTask rows, the five background jobs that write them, and the  *)
(* status lookup.                                                          *)
(*                                                                         *)
(* Time is counted in ticks of 1/TicksPerSecond second, so that ages below *)
(* one second exist.  The clock is taken to be monotone and the cache to   *)
(* drop an entry only at its own expiry.                                   *)
(***************************************************************************)
EXTENDS Integers, Sequences, FiniteSets, TLC

VARIABLES
    now,         \* time.time(), in ticks
    cache,       \* per user: the rate_limit_<id> entry, [ts, exp]
    log,         \* per user: the times of every admitted request (history)
    advances,    \* how often the clock has advanced (bounds the model)
    lastResp,    \* what the rate limiter answered to the latest request
    tasks,       \* the GenerationTask table, row id = index
    jobs,        \* the background thread dispatched for each task
    lessons,     \* the Lesson table
    books,       \* the Book table, each with its Chapter rows in order
    lastLookup,  \* what the latest status lookup answered
    call,        \* the latest call of the generation client and what came of it
    conversations, \* the Conversation table, row id = index
    lastChat,    \* what chat_api answered to the latest chat turn
    progress,    \* per user: UserProgress.practice_time_minutes
    lastSubmit,  \* what the latest request to a generation endpoint was answered
    checks,      \* the admission checks that have read the cache and not yet decided
    turns        \* the chat turns that have read their conversation, ended or not

rateVars == <<now, cache, log, advances, lastResp>>
taskVars == <<tasks, jobs, lessons, books>>
chatVars == <<call, conversations, lastChat, progress>>
flightVars == <<checks, turns>>
vars == <<now, cache, log, advances, lastResp, tasks, jobs, lessons, books, lastLookup,
          call, conversations, lastChat, progress, lastSubmit, checks, turns>>

(***************************************************************************)
(* Bounds of the model.                                                    *)
(***************************************************************************)
TicksPerSecond == 2
MaxAdvances == 2
MaxAdmitted == 17
MaxTasks == 2
MaxChapters == 2

(***************************************************************************)
(* Constants of the program.                                               *)
(***************************************************************************)
RequestsPerMinute == 15
WindowSeconds == 60
CacheTimeout == 120

WindowTicks == WindowSeconds * TicksPerSecond
CacheTicks == CacheTimeout * TicksPerSecond

Users == {"alice", "root"}
is_superuser(u) == u = "root"

(***************************************************************************)
(* The rate limiter: rate_limit.wrapper.                                   *)
(***************************************************************************)

\* cache.get(cache_key, []): the stored list, or [] once the entry expired.
CacheGet(u) == IF now < cache[u].exp THEN cache[u].ts ELSE <<>>

FreshInclusive(t, cutoff) == t >= cutoff

\* "t > cutoff": the test a timestamp passes to stay in the window.
Fresh(t, cutoff) == t > cutoff

\* timestamps = [t for t in timestamps if t > cutoff], cutoff = now - 60.
Timestamps(u) == SelectSeq(CacheGet(u), LAMBDA t : Fresh(t, now - WindowTicks))

OverLimitStrict(ts) == Len(ts) > RequestsPerMinute

\* len(timestamps) >= requests_per_minute
OverLimit(ts) == Len(ts) >= RequestsPerMinute

\* wait_time = int(60 - (now - timestamps[0])), in whole seconds.
WaitTime(ts) == (WindowTicks - (now - ts[1])) \div TicksPerSecond

\* The age of the oldest stored timestamp, or -1 when nothing is stored.
OldestStoredAge(u) == IF Len(cache[u].ts) = 0 THEN -1 ELSE now - cache[u].ts[1]

\* How many admitted requests of u are less than 60 seconds old (from the history).
RecentAdmitted(u) == Cardinality({j \in 1..Len(log[u]) : now - log[u][j] < WindowTicks})

\* What the latest request met and what it was answered.
Resp(u, kind, wait) ==
    [user |-> u, kind |-> kind, wait |-> wait, at |-> now,
     oldest |-> OldestStoredAge(u), recent |-> RecentAdmitted(u),
     prev |-> lastResp.kind]

Rejected(u) == OverLimit(Timestamps(u))

RejectAndStore(u) ==
    /\ Rejected(u)
    /\ lastResp' = Resp(u, "rejected", WaitTime(Timestamps(u)))
    /\ cache' = [cache EXCEPT ![u] = [ts |-> Timestamps(u), exp |-> now + CacheTicks]]
    /\ UNCHANGED log

\* The rejection branch: a 429 or a redirect, the cache left alone.
Reject(u) ==
    /\ Rejected(u)
    /\ lastResp' = Resp(u, "rejected", WaitTime(Timestamps(u)))
    /\ UNCHANGED <<cache, log>>

AdmitShortLived(u) ==
    /\ ~Rejected(u)
    /\ cache' = [cache EXCEPT ![u] = [ts |-> Append(Timestamps(u), now),
                                      exp |-> now + WindowTicks - 1]]
    /\ log' = [log EXCEPT ![u] = Append(@, now)]
    /\ lastResp' = Resp(u, "admitted", 0)

\* timestamps.append(now); cache.set(cache_key, timestamps, 120)
Admit(u) ==
    /\ ~Rejected(u)
    /\ cache' = [cache EXCEPT ![u] = [ts |-> Append(Timestamps(u), now),
                                      exp |-> now + CacheTicks]]
    /\ log' = [log EXCEPT ![u] = Append(@, now)]
    /\ lastResp' = Resp(u, "admitted", 0)

\* What a generation endpoint answers: the view asked, the kind of answer, the
\* page or the named URL it leads to, and the task the URL names.
Response(view, kind, to, task_id) == [view |-> view, kind |-> kind, to |-> to, task_id |-> task_id]

\* The limiter's own answer, the view not called: a 429 with wait_seconds to an
\* AJAX request, else redirect('home') with a message.
Refusal(view) == Response(view, "rate_limited", "", 0)

\* The clock moves on between requests.
AdvanceTicks == {1, TicksPerSecond, WindowTicks - 1, WindowTicks, CacheTicks}

Advance ==
    /\ advances < MaxAdvances
    /\ \E d \in AdvanceTicks : now' = now + d
    /\ advances' = advances + 1
    /\ UNCHANGED <<cache, log, lastResp, tasks, jobs, lessons, books, lastLookup, chatVars,
                   lastSubmit, flightVars>>

\* GET generate-lesson/: through the limiter, then the form is rendered.
generate_lesson_form(u) ==
    /\ Len(log[u]) < MaxAdmitted
    /\ \/ Reject(u) /\ lastSubmit' = Refusal("form")
       \/ Admit(u) /\ lastSubmit' = Response("form", "page", "lesson_form.html", 0)
    /\ UNCHANGED <<now, advances, tasks, jobs, lessons, books, lastLookup, chatVars, flightVars>>

NoResp ==
    [user |-> "none", kind |-> "none", wait |-> 0, at |-> 0,
     oldest |-> -1, recent |-> 0, prev |-> "none"]

\* No call of the generation client and no chat turn has been made yet.
NoCall == [op |-> "none"]
NoChat ==
    [status |-> 0, user |-> "none", message |-> "", outcome |-> [kind |-> "none", fault |-> ""],
     before |-> <<>>, response |-> "", conversation_id |-> 0]

\* No request to a generation endpoint has been made yet.
NoSubmit == [view |-> "none", kind |-> "none", to |-> "", task_id |-> 0]

\* No status lookup has been made yet.
NoLookup ==
    [view |-> "none", caller |-> "none", task |-> 0, exists |-> FALSE, found |-> FALSE,
     data |-> <<>>]

\* The cache is empty, no task exists yet, and the library holds one lesson
\* and one book entered on the admin site (ChapterInline: order, title and
\* summary, no body).
InitRate ==
    /\ now = 0
    /\ cache = [u \in Users |-> [ts |-> <<>>, exp |-> 0]]
    /\ log = [u \in Users |-> <<>>]
    /\ advances = 0
    /\ lastResp = NoResp
    /\ tasks = <<>>
    /\ jobs = <<>>
    /\ lessons = <<[user |-> "alice", content |-> "ok"]>>
    /\ books = <<[title |-> "ok",
                  chapters |-> [i \in 1..MaxChapters |-> [content |-> "", order |-> i - 1]]]>>
    /\ lastLookup = NoLookup
    /\ call = NoCall
    /\ conversations = <<>>
    /\ lastChat = NoChat
    /\ progress = [u \in Users |-> 0]
    /\ lastSubmit = NoSubmit
    /\ checks = <<>>
    /\ turns = <<>>

NextRate ==
    \/ Advance
    \/ generate_lesson_form("alice")

SpecRate == InitRate /\ [][NextRate]_vars

(***************************************************************************)
(* The rate limiter under concurrent requests: the wrapper of one request  *)
(* reads the cache, and writes it back in a later step, while the wrappers *)
(* of other requests of the same caller run in between.                    *)
(***************************************************************************)
MaxChecks == 2
MaxElapses == 1

\* The checks in flight without the i-th.
Without(seq, i) == SubSeq(seq, 1, i - 1) \o SubSeq(seq, i + 1, Len(seq))

ReadUnfiltered(u) == [user |-> u, at |-> now, ts |-> CacheGet(u)]

\* now = time.time(); timestamps = cache.get(cache_key, []);
\* timestamps = [t for t in timestamps if t > cutoff]: the wrapper's locals.
Read(u) == [user |-> u, at |-> now, ts |-> Timestamps(u)]

\* wait_time = int(60 - (now - timestamps[0])), from the wrapper's own now.
WaitAt(c) == (WindowTicks - (c.at - c.ts[1])) \div TicksPerSecond

\* How many admitted requests of u bear a time in the 60 seconds before at.
RecentAt(u, at) ==
    Cardinality({j \in 1..Len(log[u]) : log[u][j] > at - WindowTicks /\ log[u][j] <= at})

\* What a check answers, with what it met.
Answer(c, kind, wait) ==
    [user |-> c.user, kind |-> kind, wait |-> wait, at |-> c.at,
     oldest |-> IF Len(c.ts) = 0 THEN -1 ELSE c.at - c.ts[1],
     recent |-> RecentAt(c.user, c.at), prev |-> lastResp.kind]

\* The first half of the wrapper, up to the filtered list.
wrapper_read(u) ==
    /\ Len(checks) < MaxChecks
    /\ Len(log[u]) + Len(checks) < MaxAdmitted
    /\ checks' = Append(checks, Read(u))
    /\ UNCHANGED <<rateVars, taskVars, lastLookup, chatVars, lastSubmit, turns>>

wrapper_finish_unchecked(i) ==
    LET c == checks[i] IN
    /\ cache' = [cache EXCEPT ![c.user] = [ts |-> Append(c.ts, c.at),
                                           exp |-> now + CacheTicks]]
    /\ IF OverLimit(c.ts)
       THEN /\ lastResp' = Answer(c, "rejected", WaitAt(c))
            /\ lastSubmit' = Refusal("form")
            /\ UNCHANGED log
       ELSE /\ log' = [log EXCEPT ![c.user] = Append(@, c.at)]
            /\ lastResp' = Answer(c, "admitted", 0)
            /\ lastSubmit' = Response("form", "page", "lesson_form.html", 0)
    /\ checks' = Without(checks, i)
    /\ UNCHANGED <<now, advances, taskVars, lastLookup, chatVars, turns>>

\* The second half of the wrapper of a GET generate-lesson/: the rejection,
\* or timestamps.append(now); cache.set(cache_key, timestamps, 120) with the
\* now and the list of the first half, and the view.
wrapper_finish(i) ==
    LET c == checks[i] IN
    /\ IF OverLimit(c.ts)
       THEN /\ lastResp' = Answer(c, "rejected", WaitAt(c))
            /\ lastSubmit' = Refusal("form")
            /\ UNCHANGED <<cache, log>>
       ELSE /\ cache' = [cache EXCEPT ![c.user] = [ts |-> Append(c.ts, c.at),
                                                   exp |-> now + CacheTicks]]
            /\ log' = [log EXCEPT ![c.user] = Append(@, c.at)]
            /\ lastResp' = Answer(c, "admitted", 0)
            /\ lastSubmit' = Response("form", "page", "lesson_form.html", 0)
    /\ checks' = Without(checks, i)
    /\ UNCHANGED <<now, advances, taskVars, lastLookup, chatVars, turns>>

\* The clock moves on between the steps of the wrappers: by half a second, or
\* by the length of the window.
Elapse ==
    /\ advances < MaxElapses
    /\ \E d \in {1, WindowTicks} : now' = now + d
    /\ advances' = advances + 1
    /\ UNCHANGED <<cache, log, lastResp, taskVars, lastLookup, chatVars, lastSubmit,
                   flightVars>>

NextRace ==
    \/ Elapse
    \/ wrapper_read("alice")
    \/ \E i \in 1..Len(checks) : wrapper_finish(i)

SpecRace == InitRate /\ [][NextRace]_vars

(***************************************************************************)
(* GenerationTask rows and their one-way updates.                          *)
(***************************************************************************)

CreateTaskProcessing(u, type) ==
    [user |-> u, task_type |-> type, topic |-> "topic", status |-> "processing",
     result_id |-> <<>>, error_message |-> "", completed_at |-> FALSE]

\* GenerationTask.objects.create(user=..., task_type=..., status='pending')
CreateTask(u, type) ==
    [user |-> u, task_type |-> type, topic |-> "topic", status |-> "pending",
     result_id |-> <<>>, error_message |-> "", completed_at |-> FALSE]

MarkProcessingSkipped(t) == t

\* task.status = 'processing'; task.save()
MarkProcessing(t) == [t EXCEPT !.status = "processing"]

MarkCompletedUnstamped(t, id) == [t EXCEPT !.status = "completed", !.result_id = <<id>>]

\* task.status = 'completed'; task.result_id = ...; task.completed_at = now; task.save()
MarkCompleted(t, id) ==
    [t EXCEPT !.status = "completed", !.result_id = <<id>>, !.completed_at = TRUE]

\* task.status = 'failed'; task.error_message = str(e); task.save()
MarkFailed(t, msg) == [t EXCEPT !.status = "failed", !.error_message = msg]

FaultedSaveWritten(old, new) == new

\* The stored row after a save() that raised: nothing was written.
FaultedSave(old, new) == old

\* str(e) of the faults a store operation or the client's construction raises;
\* an exception built without arguments has the empty string.
FaultMsgs == {"", "fault"}

\* str(e) of the AttributeError that result.get(...) raises on a non-mapping.
AttrErrorMsg == "no attribute 'get'"

\* What generate_content returns: a parsed or repaired mapping, the mapping of
\* its last except branch, or parsed JSON that is no mapping.
ProviderResults == {"ok", "errordict", "nondict"}

\* content_data.get('content', ''): the last except branch carries "".
ChapterContent(r) == IF r = "ok" THEN "generated" ELSE ""

\* f"Error generating content: {str(e)}"
ErrorContent == "Error generating content"

(***************************************************************************)
(* The background jobs.  pc is the place of the thread in its function.    *)
(***************************************************************************)

\* threading.Thread(target=..., args=(task.id, ...)).start()
NewJob(kind, arg, limited) ==
    [kind |-> kind, pc |-> "start", arg |-> arg, data |-> "none", i |-> 0,
     n |-> 0, ent |-> 0, err |-> "", limited |-> limited]

\* An exception raised inside the try block: control moves to "except Exception as e".
Raise(job, msg) ==
    [job EXCEPT !.pc = "handler", !.err = msg, !.data = "none", !.i = 0, !.n = 0, !.ent = 0]

\* The thread has ended (pc "done": it returned; "dead": an exception left it).
Ended(job, pc) ==
    [job EXCEPT !.pc = pc, !.err = "", !.data = "none", !.i = 0, !.n = 0, !.ent = 0]

\* The loop over the chapters goes on, or the job goes on to mark the task.
NextChapterPc(i, n) == IF i > n THEN "complete" ELSE "chapter_gen"

ChapterFaultUncaught(job) == Raise(job, "fault")

\* A fault inside the chapter loop's own try: "except Exception as ce" of the
\* outline job puts the error text in chapter_content and goes on to create
\* the chapter; "except Exception as chapter_error" of the book-content job
\* goes on to write the error text into the chapter.
ChapterFault(job) ==
    IF job.kind = "content"
    THEN [job EXCEPT !.pc = "chapter_err"]
    ELSE [job EXCEPT !.pc = "chapter_save", !.data = ErrorContent]

ChapterOrderUnset(i) == 0

\* for i, chapter_data in enumerate(chapters_data): ... order=i
ChapterOrder(i) == i - 1

StubBodyEmpty(job) == ""

\* content=chapter_content: the chapter is created with the body just generated.
StubBody(job) == job.data

UpdateLessonAsNew(ls, id, data) == Append(ls, [user |-> ls[id].user, content |-> data])

\* lesson = Lesson.objects.get(id=lesson_id); lesson.content = ...; lesson.save()
UpdateLesson(ls, id, data) == [ls EXCEPT ![id].content = data]

TaskOfFirst(k) == 1

\* The task a thread writes: the id its request passed it, args=(task.id, ...);
\* the k-th thread was started for the k-th task.
TaskOf(k) == k

ResultIdUnsaved(job) == Len(lessons) + Len(books) + 1

\* The id the job records as result_id.
ResultId(job) == IF job.kind = "content" THEN job.arg ELSE job.ent

\* try: task = GenerationTask.objects.get(id=task_id); task.status = 'processing'; task.save()
JobBegin(k) ==
    /\ jobs[k].pc = "start"
    /\ \/ /\ tasks' = [tasks EXCEPT ![TaskOf(k)] = MarkProcessing(@)]
          /\ jobs' = [jobs EXCEPT ![k].pc = "generate"]
       \/ \E m \in FaultMsgs :
            /\ tasks' = [tasks EXCEPT ![TaskOf(k)] = FaultedSave(@, MarkProcessing(@))]
            /\ jobs' = [jobs EXCEPT ![k] = Raise(@, m)]
    /\ UNCHANGED <<lessons, books>>

\* The entity is read where the job names one, AICoach() is built and the
\* provider is asked for the lesson or the outline; the book-content job reads
\* its book and the chapters to fill.  generate_book_outline itself calls
\* result.get(...), which raises on a result that is no mapping.
JobGenerate(k) ==
    /\ jobs[k].pc = "generate"
    /\ \/ /\ jobs[k].kind \in {"lesson", "regen_lesson"}
          /\ \E r \in ProviderResults :
                jobs' = [jobs EXCEPT ![k].pc = "persist", ![k].data = r]
       \/ /\ jobs[k].kind = "regen_book"
          /\ \E r \in ProviderResults \ {"nondict"} :
                jobs' = [jobs EXCEPT ![k].pc = "persist", ![k].data = r]
       \/ /\ jobs[k].kind = "book"
          /\ \E r \in ProviderResults \ {"nondict"} : \E n \in 0..MaxChapters :
                /\ (r # "ok") => n = 0
                /\ jobs' = [jobs EXCEPT ![k].pc = "persist", ![k].data = r, ![k].n = n]
       \/ /\ jobs[k].kind \in {"book", "regen_book"}
          /\ jobs' = [jobs EXCEPT ![k] = Raise(@, AttrErrorMsg)]
       \/ /\ jobs[k].kind = "content"
          /\ jobs' = [jobs EXCEPT ![k].n = Len(books[jobs[k].arg].chapters),
                                  ![k].i = 1,
                                  ![k].pc = NextChapterPc(1, Len(books[jobs[k].arg].chapters))]
       \/ \E m \in FaultMsgs : jobs' = [jobs EXCEPT ![k] = Raise(@, m)]
    /\ UNCHANGED <<tasks, lessons, books>>

\* The domain write: Lesson.objects.create, lesson.save, Book.objects.create, book.save.
JobPersist(k) ==
    /\ jobs[k].pc = "persist"
    /\ \/ /\ jobs[k].data = "nondict"
          /\ jobs' = [jobs EXCEPT ![k] = Raise(@, AttrErrorMsg)]
          /\ UNCHANGED <<lessons, books>>
       \/ /\ jobs[k].data # "nondict"
          /\ jobs[k].kind = "lesson"
          /\ lessons' = Append(lessons, [user |-> tasks[TaskOf(k)].user, content |-> jobs[k].data])
          /\ jobs' = [jobs EXCEPT ![k].pc = "complete", ![k].ent = Len(lessons) + 1]
          /\ UNCHANGED books
       \/ /\ jobs[k].data # "nondict"
          /\ jobs[k].kind = "regen_lesson"
          /\ lessons' = UpdateLesson(lessons, jobs[k].arg, jobs[k].data)
          /\ jobs' = [jobs EXCEPT ![k].pc = "complete", ![k].ent = jobs[k].arg]
          /\ UNCHANGED books
       \/ /\ jobs[k].data # "nondict"
          /\ jobs[k].kind = "book"
          /\ books' = Append(books, [title |-> jobs[k].data, chapters |-> <<>>])
          /\ jobs' = [jobs EXCEPT ![k].pc = NextChapterPc(1, jobs[k].n), ![k].i = 1,
                                  ![k].ent = Len(books) + 1]
          /\ UNCHANGED lessons
       \/ /\ jobs[k].data # "nondict"
          /\ jobs[k].kind = "regen_book"
          /\ books' = [books EXCEPT ![jobs[k].arg].title = jobs[k].data]
          /\ jobs' = [jobs EXCEPT ![k].pc = "complete", ![k].ent = jobs[k].arg]
          /\ UNCHANGED lessons
       \/ /\ jobs[k].data # "nondict"
          /\ \E m \in FaultMsgs : jobs' = [jobs EXCEPT ![k] = Raise(@, m)]
          /\ UNCHANGED <<lessons, books>>
    /\ UNCHANGED tasks

\* coach.generate_chapter_content(...) and content_data.get('content', ''),
\* inside the loop's own try: a fault here is caught by the loop's except.
\* In the outline job chapter_data.get('title', ...) comes first, outside that
\* try, and raises on an outline entry that is no mapping.
ChapterGenerate(k) ==
    /\ jobs[k].pc = "chapter_gen"
    /\ \/ \E r \in ProviderResults \ {"nondict"} :
            jobs' = [jobs EXCEPT ![k].pc = "chapter_save", ![k].data = ChapterContent(r)]
       \/ jobs' = [jobs EXCEPT ![k] = ChapterFault(@)]
       \/ /\ jobs[k].kind = "book"
          /\ jobs' = [jobs EXCEPT ![k] = Raise(@, AttrErrorMsg)]
    /\ UNCHANGED <<tasks, lessons, books>>

\* Chapter.objects.create(..., content=chapter_content, order=i) in the outline
\* job; chapter.content = ...; chapter.save() in the book-content job, where a
\* fault of the save is caught by the loop's except.
ChapterSave(k) ==
    /\ jobs[k].pc = "chapter_save"
    /\ \/ /\ jobs[k].kind = "book"
          /\ books' = [books EXCEPT ![jobs[k].ent].chapters =
                          Append(@, [content |-> StubBody(jobs[k]),
                                      order |-> ChapterOrder(jobs[k].i)])]
          /\ jobs' = [jobs EXCEPT ![k].i = @ + 1,
                                  ![k].pc = NextChapterPc(jobs[k].i + 1, jobs[k].n)]
       \/ /\ jobs[k].kind = "book"
          /\ \E m \in FaultMsgs : jobs' = [jobs EXCEPT ![k] = Raise(@, m)]
          /\ UNCHANGED books
       \/ /\ jobs[k].kind = "content"
          /\ books' = [books EXCEPT ![jobs[k].arg].chapters[jobs[k].i].content = jobs[k].data]
          /\ jobs' = [jobs EXCEPT ![k].i = @ + 1,
                                  ![k].pc = NextChapterPc(jobs[k].i + 1, jobs[k].n)]
       \/ /\ jobs[k].kind = "content"
          /\ jobs' = [jobs EXCEPT ![k] = ChapterFault(@)]
          /\ UNCHANGED books
    /\ UNCHANGED <<tasks, lessons>>

\* except Exception as chapter_error: chapter.content = f"Error ..."; chapter.save()
ChapterError(k) ==
    /\ jobs[k].pc = "chapter_err"
    /\ \/ /\ books' = [books EXCEPT ![jobs[k].arg].chapters[jobs[k].i].content = ErrorContent]
          /\ jobs' = [jobs EXCEPT ![k].i = @ + 1,
                                  ![k].pc = NextChapterPc(jobs[k].i + 1, jobs[k].n)]
       \/ /\ \E m \in FaultMsgs : jobs' = [jobs EXCEPT ![k] = Raise(@, m)]
          /\ UNCHANGED books
    /\ UNCHANGED <<tasks, lessons>>

\* task.status = 'completed'; task.result_id = ...; task.completed_at = ...; task.save()
JobComplete(k) ==
    /\ jobs[k].pc = "complete"
    /\ \/ /\ tasks' = [tasks EXCEPT ![TaskOf(k)] = MarkCompleted(@, ResultId(jobs[k]))]
          /\ jobs' = [jobs EXCEPT ![k] = Ended(@, "done")]
       \/ \E m \in FaultMsgs :
            /\ tasks' = [tasks EXCEPT ![TaskOf(k)] =
                            FaultedSave(@, MarkCompleted(@, ResultId(jobs[k])))]
            /\ jobs' = [jobs EXCEPT ![k] = Raise(@, m)]
    /\ UNCHANGED <<lessons, books>>

\* except Exception as e: task = GenerationTask.objects.get(id=task_id);
\* task.status = 'failed'; task.error_message = str(e); task.save().
\* A fault raised here is caught by nothing: the thread ends.
JobHandler(k) ==
    /\ jobs[k].pc = "handler"
    /\ \/ /\ tasks' = [tasks EXCEPT ![TaskOf(k)] = MarkFailed(@, jobs[k].err)]
          /\ jobs' = [jobs EXCEPT ![k] = Ended(@, "done")]
       \/ /\ jobs' = [jobs EXCEPT ![k] = Ended(@, "dead")]
          /\ UNCHANGED tasks
    /\ UNCHANGED <<lessons, books>>

JobStep ==
    /\ \E k \in 1..Len(jobs) :
         \/ JobBegin(k)
         \/ JobGenerate(k)
         \/ JobPersist(k)
         \/ ChapterGenerate(k)
         \/ ChapterSave(k)
         \/ ChapterError(k)
         \/ JobComplete(k)
         \/ JobHandler(k)
    /\ UNCHANGED <<now, cache, log, advances, lastResp, lastLookup, chatVars, lastSubmit, flightVars>>

(***************************************************************************)
(* The endpoints that create a task and dispatch its job.  The requests    *)
(* modelled here are those that name an existing entity and, on the        *)
(* superuser pages, come from a superuser: the others end in a 404 or a    *)
(* redirect and touch only the limiter, as generate_lesson_form does.      *)
(***************************************************************************)

\* return redirect('generation_status', task_id=task.id)
RedirectToStatus(view, task_id) == Response(view, "redirect", "generation_status", task_id)

\* The limiter rejected the request: the view is not called.
Refused(view) == lastSubmit' = Refusal(view) /\ UNCHANGED taskVars

\* The task is created, the thread started and the caller sent to the status
\* page of the task.
Dispatch(u, type, kind, arg, limited) ==
    /\ tasks' = Append(tasks, CreateTask(u, type))
    /\ jobs' = Append(jobs, NewJob(kind, arg, limited))
    /\ lastSubmit' = RedirectToStatus(kind, Len(tasks) + 1)
    /\ UNCHANGED <<lessons, books>>

\* @login_required @rate_limit(requests_per_minute=15) generate_lesson_view, POST
generate_lesson_view(u) ==
    /\ Len(tasks) < MaxTasks
    /\ IF Rejected(u)
       THEN Reject(u) /\ Refused("lesson")
       ELSE Admit(u) /\ Dispatch(u, "lesson", "lesson", 0, TRUE)
    /\ UNCHANGED <<now, advances, lastLookup, chatVars, flightVars>>

\* @login_required @rate_limit(requests_per_minute=15) regenerate_lesson:
\* get_object_or_404(Lesson, pk=lesson_id), then the task and the thread.
regenerate_lesson(u, lesson_id) ==
    /\ Len(tasks) < MaxTasks
    /\ lesson_id \in 1..Len(lessons)
    /\ IF Rejected(u)
       THEN Reject(u) /\ Refused("regen_lesson")
       ELSE Admit(u) /\ Dispatch(u, "lesson", "regen_lesson", lesson_id, TRUE)
    /\ UNCHANGED <<now, advances, lastLookup, chatVars, flightVars>>

\* @login_required @rate_limit(requests_per_minute=15) admin_generate_book, POST
admin_generate_book(u) ==
    /\ Len(tasks) < MaxTasks
    /\ is_superuser(u)
    /\ IF Rejected(u)
       THEN Reject(u) /\ Refused("book")
       ELSE Admit(u) /\ Dispatch(u, "book", "book", 0, TRUE)
    /\ UNCHANGED <<now, advances, lastLookup, chatVars, flightVars>>

\* @login_required @rate_limit(requests_per_minute=15) admin_generate_book_content:
\* the task is created, then "task.result_id = book_id; task.save()", then the thread.
admin_generate_book_content(u, book_id) ==
    /\ Len(tasks) < MaxTasks
    /\ is_superuser(u)
    /\ book_id \in 1..Len(books)
    /\ IF Rejected(u)
       THEN Reject(u) /\ Refused("content")
       ELSE /\ Admit(u)
            /\ tasks' = Append(tasks, [CreateTask(u, "chapter") EXCEPT
                                          !.result_id = <<book_id>>])
            /\ jobs' = Append(jobs, NewJob("content", book_id, TRUE))
            /\ lastSubmit' = RedirectToStatus("content", Len(tasks) + 1)
            /\ UNCHANGED <<lessons, books>>
    /\ UNCHANGED <<now, advances, lastLookup, chatVars, flightVars>>

\* @login_required regenerate_book: no rate_limit decorator.
regenerate_book(u, book_id) ==
    /\ Len(tasks) < MaxTasks
    /\ is_superuser(u)
    /\ book_id \in 1..Len(books)
    /\ Dispatch(u, "book", "regen_book", book_id, FALSE)
    /\ UNCHANGED <<now, cache, log, advances, lastResp, lastLookup, chatVars, flightVars>>

EntityIds == 1..(MaxTasks + 1)

Submit ==
    \E u \in Users :
        \/ generate_lesson_view(u)
        \/ admin_generate_book(u)
        \/ \E id \in EntityIds :
              \/ regenerate_lesson(u, id)
              \/ admin_generate_book_content(u, id)
              \/ regenerate_book(u, id)

(***************************************************************************)
(* The status lookup.                                                      *)
(***************************************************************************)

TaskVisibleToSuperuser(u, t) == t.user = u \/ is_superuser(u)

\* get_object_or_404(GenerationTask, id=task_id, user=request.user)
TaskVisible(u, t) == t.user = u

\* get_object_or_404(GenerationTask, id=task_id, user=request.user) finds a row.
TaskFound(u, task_id) == task_id \in 1..Len(tasks) /\ TaskVisible(u, tasks[task_id])

\* What a lookup answered: the data of the response, <<>> for a 404.
Lookup(view, u, task_id, data) ==
    [view |-> view, caller |-> u, task |-> task_id, exists |-> task_id \in 1..Len(tasks),
     found |-> TaskFound(u, task_id), data |-> data]

\* f'/lesson/{task.result_id}/', f'/superuser/book/{task.result_id}/preview/',
\* f'/library/book/{task.result_id}/'
RedirectUrl(t) ==
    CASE t.task_type = "lesson" -> <<"/lesson/", t.result_id, "/">>
      [] t.task_type = "book" -> <<"/superuser/book/", t.result_id, "/preview/">>
      [] t.task_type = "chapter" -> <<"/library/book/", t.result_id, "/">>

StatusDataErrorAlways(t) ==
    LET data == [status |-> t.status, task_type |-> t.task_type, topic |-> t.topic]
    IN  IF t.status = "completed"
        THEN data @@ ("redirect_url" :> RedirectUrl(t)) @@ ("error" :> t.error_message)
        ELSE data @@ ("error" :> t.error_message)

\* data = {'status': ..., 'task_type': ..., 'topic': ...}, then 'redirect_url'
\* for a completed task, 'error' for a failed one.
StatusData(t) ==
    LET data == [status |-> t.status, task_type |-> t.task_type, topic |-> t.topic]
    IN  IF t.status = "completed"
        THEN IF t.task_type \in {"lesson", "book", "chapter"}
             THEN data @@ ("redirect_url" :> RedirectUrl(t))
             ELSE data
        ELSE IF t.status = "failed"
        THEN data @@ ("error" :> t.error_message)
        ELSE data

\* @login_required generation_status_api: the JSON data of the task, or a 404.
generation_status_api(u, task_id) ==
    /\ lastLookup' = Lookup("api", u, task_id,
                             IF TaskFound(u, task_id) THEN StatusData(tasks[task_id])
                             ELSE <<>>)
    /\ UNCHANGED <<now, cache, log, advances, lastResp, tasks, jobs, lessons, books, chatVars,
                   lastSubmit, flightVars>>

generation_status_limited(u, task_id) ==
    /\ ~Rejected(u)
    /\ Admit(u)
    /\ lastLookup' = Lookup("page", u, task_id,
                             IF TaskFound(u, task_id) THEN [task |-> tasks[task_id]] ELSE <<>>)
    /\ UNCHANGED <<now, advances, tasks, jobs, lessons, books, chatVars, lastSubmit, flightVars>>

\* @login_required generation_status: the loading page rendered with the task,
\* or a 404.
generation_status(u, task_id) ==
    /\ lastLookup' = Lookup("page", u, task_id,
                             IF TaskFound(u, task_id) THEN [task |-> tasks[task_id]] ELSE <<>>)
    /\ UNCHANGED <<now, cache, log, advances, lastResp, tasks, jobs, lessons, books, chatVars,
                   lastSubmit, flightVars>>

Poll == \E u \in Users : \E task_id \in 1..MaxTasks : generation_status_api(u, task_id)

PollPage == \E u \in Users : \E task_id \in 1..MaxTasks : generation_status(u, task_id)

(***************************************************************************)
(* The pipeline: requests of every user, the jobs' steps, the lookups.     *)
(* The library holds one lesson and one book entered on the admin site,    *)
(* the book's chapters having a title and a summary and no body yet.       *)
(***************************************************************************)

Init == InitRate

Next ==
    \/ Submit
    \/ JobStep

Spec == Init /\ [][Next]_vars

NextPoll ==
    \/ Submit
    \/ JobStep
    \/ Poll

SpecPoll == Init /\ [][NextPoll]_vars

(***************************************************************************)
(* Two kinds of job side by side: the lesson job, and the book-content job *)
(* whose request stores result_id before it starts the thread.             *)
(***************************************************************************)
SubmitWriters ==
    \E u \in Users :
        \/ generate_lesson_view(u)
        \/ \E id \in EntityIds : admin_generate_book_content(u, id)

NextWriters ==
    \/ SubmitWriters
    \/ JobStep

SpecWriters == Init /\ [][NextWriters]_vars

(***************************************************************************)
(* Submissions at the rate limiter: one user asks for the lesson form and  *)
(* submits it, often enough to be rejected, a superuser submits a book;    *)
(* the clock moves on between the requests.                                *)
(***************************************************************************)
MaxSubmitTasks == 1

SubmitLimited ==
    /\ Len(tasks) < MaxSubmitTasks
    /\ \/ generate_lesson_view("alice")
       \/ admin_generate_book("root")

NextSubmit ==
    \/ Advance
    \/ generate_lesson_form("alice")
    \/ SubmitLimited

SpecSubmit == Init /\ [][NextSubmit]_vars

(***************************************************************************)
(* The lesson jobs alone: lessons are generated and regenerated.           *)
(***************************************************************************)
MaxLessonTasks == 2

SubmitLesson ==
    /\ Len(tasks) < MaxLessonTasks
    /\ \E u \in Users :
          \/ generate_lesson_view(u)
          \/ \E id \in EntityIds : regenerate_lesson(u, id)

NextLesson ==
    \/ SubmitLesson
    \/ JobStep

SpecLesson == Init /\ [][NextLesson]_vars

(***************************************************************************)
(* The status page and the status API beside the jobs.                     *)
(***************************************************************************)
MaxStatusTasks == 1

SubmitStatus == Len(tasks) < MaxStatusTasks /\ Submit

NextStatus ==
    \/ SubmitStatus
    \/ JobStep
    \/ Poll
    \/ PollPage

SpecStatus == Init /\ [][NextStatus]_vars

(***************************************************************************)
(* The regeneration jobs alone.  The regeneration of a single chapter      *)
(* (urls.py: superuser/chapter/<chapter_id>/regenerate/) follows the job   *)
(* template of the other two: behind the rate limiter, the task, the       *)
(* thread; the thread asks the provider for the chapter's content, writes  *)
(* it into the existing chapter and records the chapter as the result.  A  *)
(* chapter is named here by its book and its place in it.                  *)
(***************************************************************************)
MaxRegenTasks == 1

regenerate_chapter(u, book_id, c) ==
    /\ Len(tasks) < MaxTasks
    /\ is_superuser(u)
    /\ book_id \in 1..Len(books)
    /\ c \in 1..Len(books[book_id].chapters)
    /\ IF Rejected(u)
       THEN Reject(u) /\ Refused("regen_chapter")
       ELSE Admit(u) /\ Dispatch(u, "chapter", "regen_chapter", <<book_id, c>>, TRUE)
    /\ UNCHANGED <<now, advances, lastLookup, chatVars, flightVars>>

\* coach.generate_chapter_content(...), whose result.get raises on a result
\* that is no mapping.
RegenChapterGenerate(k) ==
    /\ jobs[k].pc = "generate"
    /\ jobs[k].kind = "regen_chapter"
    /\ \/ \E r \in ProviderResults \ {"nondict"} :
            jobs' = [jobs EXCEPT ![k].pc = "persist", ![k].data = ChapterContent(r)]
       \/ jobs' = [jobs EXCEPT ![k] = Raise(@, AttrErrorMsg)]
    /\ UNCHANGED <<tasks, lessons, books>>

\* chapter.content = ...; chapter.save()
RegenChapterPersist(k) ==
    /\ jobs[k].pc = "persist"
    /\ jobs[k].kind = "regen_chapter"
    /\ books' = [books EXCEPT ![jobs[k].arg[1]].chapters[jobs[k].arg[2]].content = jobs[k].data]
    /\ jobs' = [jobs EXCEPT ![k].pc = "complete", ![k].ent = jobs[k].arg]
    /\ UNCHANGED <<tasks, lessons>>

RegenChapterStep ==
    /\ \E k \in 1..Len(jobs) :
         \/ RegenChapterGenerate(k)
         \/ RegenChapterPersist(k)
    /\ UNCHANGED <<now, cache, log, advances, lastResp, lastLookup, chatVars, lastSubmit, flightVars>>

SubmitRegen ==
    /\ Len(tasks) < MaxRegenTasks
    /\ \E u \in Users : \E id \in EntityIds :
          \/ regenerate_lesson(u, id)
          \/ regenerate_book(u, id)
          \/ \E c \in 1..MaxChapters : regenerate_chapter(u, id, c)

NextRegen ==
    \/ SubmitRegen
    \/ JobStep
    \/ RegenChapterStep

SpecRegen == Init /\ [][NextRegen]_vars

(***************************************************************************)
(* The book jobs alone: a superuser's requests for a new book and for the  *)
(* content of a book's chapters, and the jobs' steps.                      *)
(***************************************************************************)
MaxBookTasks == 1

SubmitBook ==
    /\ Len(tasks) < MaxBookTasks
    /\ \E u \in Users :
          \/ admin_generate_book(u)
          \/ \E id \in EntityIds : admin_generate_book_content(u, id)

NextBook ==
    \/ SubmitBook
    \/ JobStep

SpecBook == Init /\ [][NextBook]_vars

(***************************************************************************)
(* The generation client, services.py.  A text is a sequence of            *)
(* characters; the characters are those the table repair tells apart.      *)
(***************************************************************************)
MaxLen == 4

Chars == {"|", " ", "-", ":", "a", "1", "\n"}
TextsUpTo(len) == UNION {[1..n -> Chars] : n \in 0..len}

\* \s, [A-Za-z0-9], [A-Za-z]
IsWs(c) == c \in {" ", "\n"}
IsAlnum(c) == c \in {"a", "1"}
IsAlpha(c) == c = "a"

\* s[i] exists and is c.
At(s, i, c) == i <= Len(s) /\ s[i] = c

\* Where \s* and -* stop when they start at i: the first index from i on that
\* holds no such character, Len(s) + 1 if there is none.
SkipWs(s, i) ==
    CHOOSE k \in i..(Len(s) + 1) :
        /\ k = Len(s) + 1 \/ ~IsWs(s[k])
        /\ \A m \in i..(k - 1) : IsWs(s[m])
SkipDash(s, i) ==
    CHOOSE k \in i..(Len(s) + 1) :
        /\ k = Len(s) + 1 \/ s[k] # "-"
        /\ \A m \in i..(k - 1) : s[m] = "-"

\* The patterns of _fix_table_formatting, in the order of its re.sub calls.
\* MatchEnd is the index after the match that starts at i, 0 if none starts
\* there: every pattern matches in at most one way from a given start.
Steps == 1..6

\* \|\s*\|\s*:?-
MatchEnd1(s, i) ==
    LET k1 == SkipWs(s, i + 1)
        k2 == SkipWs(s, k1 + 1)
        k3 == IF At(s, k2, ":") THEN k2 + 1 ELSE k2
    IN  IF At(s, i, "|") /\ At(s, k1, "|") /\ At(s, k3, "-") THEN k3 + 1 ELSE 0

\* \|\s*\|(:---)
MatchEnd2(s, i) ==
    LET k1 == SkipWs(s, i + 1)
    IN  IF /\ At(s, i, "|") /\ At(s, k1, "|") /\ At(s, k1 + 1, ":")
           /\ At(s, k1 + 2, "-") /\ At(s, k1 + 3, "-") /\ At(s, k1 + 4, "-")
        THEN k1 + 5 ELSE 0

\* (-{3,}\s*\|)\s*\|\s*(?=[A-Za-z0-9]); DashGroupEnd is the last index of group 1.
DashGroupEnd(s, i) == SkipWs(s, SkipDash(s, i))
MatchEnd3(s, i) ==
    LET k1 == DashGroupEnd(s, i)
        k2 == SkipWs(s, k1 + 1)
        k3 == SkipWs(s, k2 + 1)
    IN  IF /\ SkipDash(s, i) - i >= 3 /\ At(s, k1, "|") /\ At(s, k2, "|")
           /\ k3 <= Len(s) /\ IsAlnum(s[k3])
        THEN k3 ELSE 0

\* \|\s*\|\s*(?=[A-Za-z0-9])
MatchEnd4(s, i) ==
    LET k1 == SkipWs(s, i + 1)
        k2 == SkipWs(s, k1 + 1)
    IN  IF At(s, i, "|") /\ At(s, k1, "|") /\ k2 <= Len(s) /\ IsAlnum(s[k2])
        THEN k2 ELSE 0

\* \n\|\s*\|
MatchEnd5(s, i) ==
    LET k1 == SkipWs(s, i + 2)
    IN  IF At(s, i, "\n") /\ At(s, i + 1, "|") /\ At(s, k1, "|") THEN k1 + 1 ELSE 0

\* ([^\n])\n(\| [A-Za-z])
MatchEnd6(s, i) ==
    IF /\ i + 4 <= Len(s) /\ s[i] # "\n" /\ s[i + 1] = "\n" /\ s[i + 2] = "|"
       /\ s[i + 3] = " " /\ IsAlpha(s[i + 4])
    THEN i + 5 ELSE 0

MatchEnd(step, s, i) ==
    CASE step = 1 -> MatchEnd1(s, i)
      [] step = 2 -> MatchEnd2(s, i)
      [] step = 3 -> MatchEnd3(s, i)
      [] step = 4 -> MatchEnd4(s, i)
      [] step = 5 -> MatchEnd5(s, i)
      [] step = 6 -> MatchEnd6(s, i)

\* The replacement text for the match that starts at i:
\* '|\n| -', r'|\n|\1', r'\1\n| ', '|\n| ', '\n|', r'\1\n\n\2'.
Replacement(step, s, i) ==
    CASE step = 1 -> <<"|", "\n", "|", " ", "-">>
      [] step = 2 -> <<"|", "\n", "|", ":", "-", "-", "-">>
      [] step = 3 -> SubSeq(s, i, DashGroupEnd(s, i)) \o <<"\n", "|", " ">>
      [] step = 4 -> <<"|", "\n", "|", " ">>
      [] step = 5 -> <<"\n", "|">>
      [] step = 6 -> <<s[i], "\n", "\n", "|", " ", s[i + 4]>>

\* re.sub(pattern, replacement, s) from index i on: the matches are taken
\* from left to right, each search starting where the last match ended.
RECURSIVE ReSub(_, _, _)
ReSub(step, s, i) ==
    IF i > Len(s) THEN <<>>
    ELSE IF MatchEnd(step, s, i) = 0 THEN <<s[i]>> \o ReSub(step, s, i + 1)
    ELSE Replacement(step, s, i) \o ReSub(step, s, MatchEnd(step, s, i))

FixTablesNot(content) == content

\* AICoach._fix_table_formatting
FixTables(content) ==
    ReSub(6, ReSub(5, ReSub(4, ReSub(3, ReSub(2, ReSub(1, content, 1), 1), 1), 1), 1), 1)

(***************************************************************************)
(* What json.loads makes of a response text, as far as generate_content    *)
(* looks at it: the type of the top-level value; for an object whether it  *)
(* has a 'content' key and, if that holds a string, the string; for an     *)
(* array whether 'content' is one of its items; for a string whether       *)
(* 'content' occurs in it.                                                 *)
(***************************************************************************)
JsonValue(type, content, text, flag) ==
    [type |-> type, content |-> content, text |-> text, flag |-> flag]

JsonObjects(texts) ==
    {JsonValue("object", "string", x, t) : x \in texts, t \in BOOLEAN}
        \cup {JsonValue("object", c, <<>>, t) : c \in {"absent", "other"}, t \in BOOLEAN}
JsonOthers ==
    {JsonValue(ty, "absent", <<>>, f) : ty \in {"array", "string"}, f \in BOOLEAN}
        \cup {JsonValue(ty, "absent", <<>>, FALSE) : ty \in {"number", "null", "bool"}}

\* A response text: well-formed JSON with its value, or text that json.loads
\* rejects, with what the repair's searches find in it: the "content": "..."
\* match and its group (as it is after the unescaping), a "full_content"
\* field, a markdown heading.
ResponseTexts(texts) ==
    {[wf |-> TRUE, value |-> v, full |-> FALSE, heading |-> FALSE] :
        v \in JsonObjects(texts) \cup JsonOthers}
        \cup {[wf |-> FALSE, value |-> JsonValue("none", "string", x, FALSE),
               full |-> f, heading |-> h] : x \in texts, f \in BOOLEAN, h \in BOOLEAN}
        \cup {[wf |-> FALSE, value |-> JsonValue("none", "absent", <<>>, FALSE),
               full |-> f, heading |-> h] : f \in BOOLEAN, h \in BOOLEAN}

\* What the provider call comes to: a fault raised by the call (the transport,
\* the authentication), a response without text (response.text raises), or a
\* response text.
FaultKinds == {"transport", "authentication"}
NoText == [wf |-> FALSE, value |-> JsonValue("none", "absent", <<>>, FALSE),
           full |-> FALSE, heading |-> FALSE]
Outcomes(texts) ==
    {[kind |-> "fault", fault |-> f, text |-> NoText] : f \in FaultKinds}
        \cup {[kind |-> "blocked", fault |-> "ValueError", text |-> NoText]}
        \cup {[kind |-> "text", fault |-> "", text |-> t] : t \in ResponseTexts(texts)}

\* What a block of code comes to: a value, or an exception.
Returned(v) == [raised |-> "none", value |-> v]
Raised(e, v) == [raised |-> e, value |-> v]

\* A result of generate_content: the value json.loads gave ("parsed"), or one
\* of the mappings the except branches build.
Result(shape, v, note) ==
    [shape |-> shape, type |-> v.type, content |-> v.content, text |-> v.text,
     flag |-> v.flag, note |-> note]

\* json.loads(response_text)
DirectParse(t) == Result("parsed", t.value, "")

\* if 'content' in result: result['content'] = self._fix_table_formatting(...)
\* 'in' raises TypeError on a number, null or a boolean; on an array or a
\* string it is the item or substring test, and result['content'] then raises
\* TypeError; re.sub raises TypeError on a content that is no string.
PostParse(v) ==
    IF v.type \in {"number", "null", "bool"} THEN Raised("TypeError", Result("none", v, ""))
    ELSE IF v.type \in {"array", "string"}
         THEN IF v.flag THEN Raised("TypeError", Result("none", v, ""))
                        ELSE Returned(Result("parsed", v, ""))
    ELSE IF v.content = "absent" THEN Returned(Result("parsed", v, ""))
    ELSE IF v.content = "string"
         THEN Returned(Result("parsed", [v EXCEPT !.text = FixTables(@)], ""))
    ELSE Raised("TypeError", Result("none", v, ""))

\* The try block of generate_content.
TryGenerate(o) ==
    IF o.kind # "text" THEN Raised(o.fault, Result("none", o.text.value, ""))
    ELSE IF ~o.text.wf THEN Raised("JSONDecodeError", Result("none", o.text.value, ""))
    ELSE PostParse(o.text.value)

RepairMarkdownFirst(t) ==
    IF t.heading
    THEN Result("markdown", JsonValue("object", "string", <<>>, TRUE), "")
    ELSE IF t.value.content = "string"
    THEN Result("content_only", [t.value EXCEPT !.type = "object", !.text = FixTables(@)], "")
    ELSE IF t.full
    THEN Result("lesson_fields", JsonValue("object", "absent", <<>>, TRUE), "")
    ELSE Result("parse_error", JsonValue("object", "string", <<>>, TRUE), "JSONDecodeError")

\* except json.JSONDecodeError: the content match, else the lesson fields, else
\* the markdown from the first heading on, else the parse-error mapping.  Of
\* the last three only the keys are modelled, the texts in them are not.
Repair(t) ==
    IF t.value.content = "string"
    THEN Result("content_only", [t.value EXCEPT !.type = "object", !.text = FixTables(@)], "")
    ELSE IF t.full
    THEN Result("lesson_fields", JsonValue("object", "absent", <<>>, TRUE), "")
    ELSE IF t.heading
    THEN Result("markdown", JsonValue("object", "string", <<>>, TRUE), "")
    ELSE Result("parse_error", JsonValue("object", "string", <<>>, TRUE), "JSONDecodeError")

\* The keys of the mappings the except branches return.
LessonKeys == {"title", "summary", "full_content", "exercises", "quiz", "conversational_practice"}
ResultKeys(shape) ==
    CASE shape = "content_only" -> {"content"}
      [] shape = "lesson_fields" -> LessonKeys
      [] shape = "markdown" -> LessonKeys \cup {"content"}
      [] shape = "parse_error" -> LessonKeys \cup {"content", "description", "chapters"}
      [] shape = "error" -> LessonKeys \cup {"content", "description", "chapters"}

\* except Exception as e: the error mapping, 'content' the empty string.
ErrorMapping(e) == Result("error", JsonValue("object", "string", <<>>, TRUE), e)

CatchNothing(o, r) == r

\* try: ... except json.JSONDecodeError: ... except Exception: ...  (o is what
\* the try block met, r what it came to.)
CatchAll(o, r) ==
    IF r.raised = "none" THEN r
    ELSE IF r.raised = "JSONDecodeError" THEN Returned(Repair(o.text))
    ELSE Returned(ErrorMapping(r.raised))

\* AICoach.generate_content
generate_content(o) == CatchAll(o, TryGenerate(o))

\* What a job holds after coach.generate_lesson(...) returned r: a mapping,
\* the mapping of the last except branch, or no mapping.
ProviderResult(r) ==
    IF r.raised # "none" THEN "raised"
    ELSE IF r.value.type # "object" THEN "nondict"
    ELSE IF r.value.shape = "error" THEN "errordict"
    ELSE "ok"

LessonDataUncaught(o) == ProviderResult(TryGenerate(o))

\* AICoach.generate_lesson: return self.generate_content(prompt)
LessonData(o) == ProviderResult(generate_content(o))

\* The provider call failed: the transport, the authentication.
ProviderFailures == {[kind |-> "fault", fault |-> f, text |-> NoText] : f \in FaultKinds}

\* The texts of a conversation.
Reply == "reply"
Apology == "Sorry, connection error. Try again."
AudioApology(e) ==
    CASE e = "transport" -> "I couldn't process your voice message. Please try again. (Error: transport)"
      [] e = "authentication" -> "I couldn't process your voice message. Please try again. (Error: authentication)"
      [] OTHER -> "I couldn't process your voice message. Please try again. (Error: ValueError)"

ChatOutcomes ==
    {[kind |-> "fault", fault |-> f] : f \in FaultKinds}
        \cup {[kind |-> "blocked", fault |-> "ValueError"], [kind |-> "text", fault |-> ""]}

\* chat_session.send_message(...); return response.text
SendMessage(o) == IF o.kind = "text" THEN Returned(Reply) ELSE Raised(o.fault, "")

ChatCatchNothing(r, apology) == r

\* except Exception as e: return <the apology>
ChatCatch(r, apology) == IF r.raised = "none" THEN r ELSE Returned(apology)

\* AICoach.chat
chat(o) == ChatCatch(SendMessage(o), Apology)

\* AICoach.chat_with_audio
chat_with_audio(o) == ChatCatch(SendMessage(o), AudioApology(o.fault))

\* One call of the client, with what the provider call came to.  A call leaves
\* nothing behind in the client, so a run looks at one call.
GenerateContentCall ==
    /\ call = NoCall
    /\ \E o \in Outcomes(TextsUpTo(MaxLen)) :
          call' = [op |-> "generate_content", outcome |-> o, ret |-> generate_content(o)]
    /\ UNCHANGED <<rateVars, taskVars, lastLookup, conversations, lastChat, progress,
                   lastSubmit, flightVars>>

ChatCall ==
    /\ call = NoCall
    /\ \E o \in ChatOutcomes : call' = [op |-> "chat", outcome |-> o, ret |-> chat(o)]
    /\ UNCHANGED <<rateVars, taskVars, lastLookup, conversations, lastChat, progress,
                   lastSubmit, flightVars>>

ChatWithAudioCall ==
    /\ call = NoCall
    /\ \E o \in ChatOutcomes :
          call' = [op |-> "chat_with_audio", outcome |-> o, ret |-> chat_with_audio(o)]
    /\ UNCHANGED <<rateVars, taskVars, lastLookup, conversations, lastChat, progress,
                   lastSubmit, flightVars>>

\* One call of the table repair on a text.
FixTableFormattingCall ==
    /\ call = NoCall
    /\ \E content \in TextsUpTo(MaxLen) :
          call' = [op |-> "_fix_table_formatting", content |-> content,
                   ret |-> FixTables(content)]
    /\ UNCHANGED <<rateVars, taskVars, lastLookup, conversations, lastChat, progress,
                   lastSubmit, flightVars>>

NextClient ==
    \/ GenerateContentCall
    \/ ChatCall
    \/ ChatWithAudioCall
    \/ FixTableFormattingCall

SpecClient == Init /\ [][NextClient]_vars

(***************************************************************************)
(* The text chat: chat_api.                                                *)
(***************************************************************************)
MaxTurns == 3

Messages == {"hello", "bye"}

\* The chat turns made so far, answered 429 or not.
Turns == Len(log["alice"]) + Len(log["root"])

AppendPairSkipped(history, user, ai) == history

\* history.append({'user': user_message, 'ai': response_text})
AppendPair(history, user, ai) == Append(history, [user |-> user, ai |-> ai])

\* Conversation.objects.get(id=conversation_id, user=request.user) finds a row.
OwnConversation(u, conversation_id) ==
    /\ conversation_id \in 1..Len(conversations)
    /\ conversations[conversation_id].user = u

\* @login_required @rate_limit(requests_per_minute=15) chat_api, POST.
\* conversation_id 0 is a request without one.  The conversation is read or
\* created, the client asked, the pair appended, the conversation saved and
\* the practice time counted; chat_api has no try of its own, so an exception
\* of coach.chat would end the request with a 500 after the conversation was
\* created.
chat_api(u, conversation_id, message) ==
    /\ Turns < MaxTurns
    /\ IF Rejected(u)
       THEN /\ Reject(u)
            /\ lastChat' = [NoChat EXCEPT !.status = 429, !.user = u, !.message = message]
            /\ UNCHANGED <<conversations, progress>>
       ELSE /\ Admit(u)
            /\ IF conversation_id # 0 /\ ~OwnConversation(u, conversation_id)
               THEN /\ lastChat' = [NoChat EXCEPT !.status = 404, !.user = u,
                                                  !.message = message]
                    /\ UNCHANGED <<conversations, progress>>
               ELSE \E o \in ChatOutcomes :
                      LET id == IF conversation_id = 0 THEN Len(conversations) + 1
                                ELSE conversation_id
                          history == IF conversation_id = 0 THEN <<>>
                                     ELSE conversations[conversation_id].history
                          created == IF conversation_id = 0
                                     THEN Append(conversations, [user |-> u, history |-> <<>>])
                                     ELSE conversations
                          r == chat(o)
                      IN  IF r.raised # "none"
                          THEN /\ conversations' = created
                               /\ lastChat' = [status |-> 500, user |-> u, message |-> message,
                                               outcome |-> o, before |-> history,
                                               response |-> "", conversation_id |-> 0]
                               /\ UNCHANGED progress
                          ELSE /\ conversations' =
                                     [created EXCEPT ![id].history =
                                         AppendPair(history, message, r.value)]
                               /\ progress' = [progress EXCEPT ![u] = @ + 1]
                               /\ lastChat' = [status |-> 200, user |-> u, message |-> message,
                                               outcome |-> o, before |-> history,
                                               response |-> r.value, conversation_id |-> id]
    /\ UNCHANGED <<now, advances, taskVars, lastLookup, call, lastSubmit, flightVars>>

NextChat ==
    \E u \in Users : \E conversation_id \in 0..MaxTurns : \E message \in Messages :
        chat_api(u, conversation_id, message)

SpecChat == Init /\ [][NextChat]_vars

(***************************************************************************)
(* Chat turns side by side: a turn of chat_api or voice_chat_api reads its *)
(* conversation, and saves it in a later step, after the provider call,    *)
(* while other turns run in between.                                       *)
(***************************************************************************)
MaxFlights == 3

VoiceMessage == "[Voice Message]"

\* What a turn stores as the user's side: the message, or the placeholder.
Utterance(view, message) == IF view = "voice" THEN VoiceMessage ELSE message

\* A turn that holds the history it read and waits for the provider.
NewTurn(view, u, id, message, history) ==
    [view |-> view, user |-> u, conversation_id |-> id, message |-> Utterance(view, message),
     history |-> history, pc |-> "provider", response |-> ""]

\* coach.chat(gemini_history, user_message), or
\* coach.chat_with_audio(gemini_history, audio_base64, mime_type).
Ask(view, o) == IF view = "voice" THEN chat_with_audio(o) ELSE chat(o)

\* The first half of a turn: the limiter, then the conversation is read
\* (Conversation.objects.get(id=..., user=request.user); history =
\* conversation.history) or created.  conversation_id 0 is a request without
\* one.
chat_read(view, u, conversation_id, message) ==
    /\ Turns < MaxFlights
    /\ IF Rejected(u)
       THEN /\ Reject(u)
            /\ lastChat' = [NoChat EXCEPT !.status = 429, !.user = u, !.message = message]
            /\ UNCHANGED <<conversations, turns>>
       ELSE /\ Admit(u)
            /\ IF conversation_id # 0 /\ ~OwnConversation(u, conversation_id)
               THEN /\ lastChat' = [NoChat EXCEPT !.status = 404, !.user = u,
                                                  !.message = message]
                    /\ UNCHANGED <<conversations, turns>>
               ELSE /\ IF conversation_id = 0
                       THEN /\ conversations' =
                                  Append(conversations, [user |-> u, history |-> <<>>])
                            /\ turns' = Append(turns, NewTurn(view, u, Len(conversations) + 1,
                                                              message, <<>>))
                       ELSE /\ turns' = Append(turns,
                                   NewTurn(view, u, conversation_id, message,
                                           conversations[conversation_id].history))
                            /\ UNCHANGED conversations
                    /\ UNCHANGED lastChat
    /\ UNCHANGED <<now, advances, taskVars, lastLookup, call, progress, lastSubmit, checks>>

\* The second half of a turn: the provider is asked, the pair appended to the
\* history the turn read, the conversation saved with it and the practice
\* time counted.  An exception of the client would end the turn with a 500.
chat_save(i) ==
    /\ turns[i].pc = "provider"
    /\ \E o \in ChatOutcomes :
         LET t == turns[i]
             r == Ask(t.view, o)
         IN  IF r.raised # "none"
             THEN /\ turns' = [turns EXCEPT ![i].pc = "failed"]
                  /\ lastChat' = [status |-> 500, user |-> t.user, message |-> t.message,
                                  outcome |-> o, before |-> t.history,
                                  response |-> "", conversation_id |-> 0]
                  /\ UNCHANGED <<conversations, progress>>
             ELSE /\ conversations' =
                        [conversations EXCEPT ![t.conversation_id].history =
                            AppendPair(t.history, t.message, r.value)]
                  /\ progress' = [progress EXCEPT ![t.user] = @ + 1]
                  /\ turns' = [turns EXCEPT ![i].pc = "done", ![i].response = r.value]
                  /\ lastChat' = [status |-> 200, user |-> t.user, message |-> t.message,
                                  outcome |-> o, before |-> t.history,
                                  response |-> r.value,
                                  conversation_id |-> t.conversation_id]
    /\ UNCHANGED <<rateVars, taskVars, lastLookup, call, lastSubmit, checks>>

NextTurns ==
    \/ \E view \in {"chat", "voice"} : \E u \in Users : \E conversation_id \in 0..MaxFlights :
         \E message \in Messages : chat_read(view, u, conversation_id, message)
    \/ \E i \in 1..Len(turns) : chat_save(i)

SpecTurns == Init /\ [][NextTurns]_vars

(***************************************************************************)
(* Claims about the tasks and their jobs, checked under Spec.              *)
(***************************************************************************)

Terminal == {"completed", "failed"}

\* C1: once a task's stored status is 'completed' or 'failed', no step of any
\* request or job changes it.
C1_TerminalAbsorbing ==
    [][\A k \in 1..Len(tasks) :
          tasks[k].status \in Terminal => tasks'[k].status = tasks[k].status]_vars

\* C1 witness: one task is completed and another failed, both jobs over, the
\* second having run its steps while the first was already terminal or after.
C1_Witness ==
    \E k1, k2 \in 1..Len(tasks) :
        /\ tasks[k1].status = "completed" /\ jobs[k1].pc = "done"
        /\ tasks[k2].status = "failed" /\ jobs[k2].pc = "done"

ChainTransitions ==
    {<<"pending", "processing">>, <<"processing", "completed">>,
     <<"processing", "failed">>}

\* C2 as claimed: a task's status only ever moves pending -> processing,
\* processing -> completed or processing -> failed.
C2_OnlyChainTransitions ==
    [][\A k \in 1..Len(tasks) :
          tasks'[k].status # tasks[k].status =>
              <<tasks[k].status, tasks'[k].status>> \in ChainTransitions]_vars

\* C2 as amended: a task's status only ever moves pending -> processing,
\* processing -> completed, processing -> failed, or pending -> failed (a fault
\* raised before 'processing' was recorded); never pending -> completed, and
\* never out of completed or failed.
C2_TransitionsWithEarlyFailure ==
    [][\A k \in 1..Len(tasks) :
          tasks'[k].status # tasks[k].status =>
              <<tasks[k].status, tasks'[k].status>> \in
                  ChainTransitions \cup {<<"pending", "failed">>}]_vars

\* C2 witness: a job is in its except branch, the fault having been raised
\* before 'processing' was stored; another task went the whole chain.
C2_Witness ==
    \E k1, k2 \in 1..Len(tasks) :
        /\ jobs[k1].pc = "handler" /\ tasks[k1].status = "pending"
        /\ tasks[k2].status = "completed"

\* C3: result_id is set if and only if status is 'completed'.
C3_ResultIdIffCompleted ==
    \A k \in 1..Len(tasks) :
        (tasks[k].result_id # <<>>) <=> (tasks[k].status = "completed")

\* C4: error_message is non-empty if and only if status is 'failed'.
C4_ErrorMessageIffFailed ==
    \A k \in 1..Len(tasks) :
        (tasks[k].error_message # "") <=> (tasks[k].status = "failed")

\* C5: a job whose thread has ended has left its task 'completed' or 'failed'
\* (no later step writes the task, so a task left otherwise stays so for ever).
C5_EndedJobLeftTaskTerminal ==
    \A k \in 1..Len(jobs) :
        jobs[k].pc \in {"done", "dead"} => tasks[k].status \in Terminal

\* C36: in every state and for every task, completed_at is set if and only if
\* the status is 'completed': the two are written by one store update, and a
\* task that ends 'failed' keeps completed_at null.
C36_CompletedAtIffCompleted ==
    \A k \in 1..Len(tasks) :
        tasks[k].completed_at <=> (tasks[k].status = "completed")

\* C36 witness: one job has completed its task, and another has ended with its
\* task failed after the save that was to complete it raised.
C36_Witness ==
    \E k1, k2 \in 1..Len(tasks) :
        /\ tasks[k1].status = "completed" /\ tasks[k1].completed_at
        /\ jobs[k1].pc = "done"
        /\ tasks[k2].status = "failed" /\ ~tasks[k2].completed_at
        /\ jobs[k2].pc = "done"
        /\ jobs[k2].kind = "lesson"
        /\ Len(lessons) > 1 + Cardinality({k \in 1..Len(tasks) :
                                            /\ tasks[k].status = "completed"
                                            /\ tasks[k].task_type = "lesson"
                                            /\ jobs[k].kind = "lesson"})

\* C9: every dispatched job belongs to a request that passed the rate
\* limiter's admission check.
C9_DispatchOnlyAfterAdmission ==
    \A k \in 1..Len(jobs) : jobs[k].limited

\* C11: no task exists, and no job was dispatched, for a request in which a
\* caller who is no superuser names a lesson of another user; such a request is
\* rejected before any generation work, so the lesson is never written for it.
C11_NoJobOnForeignLesson ==
    \A k \in 1..Len(jobs) :
        (jobs[k].kind = "regen_lesson" /\ ~is_superuser(tasks[k].user)) =>
            lessons[jobs[k].arg].user = tasks[k].user

(***************************************************************************)
(* Claims about jobs running side by side, checked under SpecWriters.      *)
(***************************************************************************)

\* C25: every task has one job and every job one task; a stored task row is
\* changed only in a step of its own job, in which no other job moves (so no
\* request changes it once the thread is started, and no other job does);
\* each such write is one of the three updates applied to the row as it is
\* stored, so nothing stored before is lost; and a step that starts a thread
\* leaves every earlier row as it was.
C25_SingleWriterPerTask ==
    /\ [](Len(jobs) = Len(tasks))
    /\ [][\A k \in 1..Len(tasks) :
             tasks'[k] # tasks[k] =>
                 /\ jobs'[k] # jobs[k]
                 /\ \A j \in 1..Len(jobs) : j # k => jobs'[j] = jobs[j] /\ tasks'[j] = tasks[j]
                 /\ Len(jobs') = Len(jobs)
                 /\ \/ tasks'[k] = MarkProcessing(tasks[k])
                    \/ tasks'[k] = MarkCompleted(tasks[k], ResultId(jobs[k]))
                    \/ tasks'[k] = MarkFailed(tasks[k], jobs[k].err)]_vars

\* C25 witness: two jobs have written their tasks in turn: the first is over
\* and its task 'completed', the second, a book-content job whose request
\* stored result_id before the thread was started, has stored 'processing'
\* after that and kept the result_id.
C25_Witness ==
    /\ Len(tasks) = 2
    /\ tasks[1].status = "completed" /\ jobs[1].pc = "done"
    /\ jobs[2].kind = "content" /\ jobs[2].pc = "generate"
    /\ tasks[2].status = "processing" /\ tasks[2].result_id = <<jobs[2].arg>>

(***************************************************************************)
(* Claims about submissions at the rate limiter, checked under SpecSubmit. *)
(***************************************************************************)

\* A request was answered in the step.
Answered == lastResp' # lastResp \/ lastSubmit' # lastSubmit \/ tasks' # tasks \/ jobs' # jobs

\* The request answered in the step was a submission that passed the limiter.
AdmittedSubmission == lastSubmit'.view \in {"lesson", "book"} /\ lastResp'.kind = "admitted"

\* C26: a submission that passes the limiter adds exactly one task, 'pending',
\* with no result and no error, owned by the caller; adds exactly one job,
\* not yet begun, as the last job as the task is the last task; leaves the
\* earlier tasks and jobs alone; and is answered with a redirect to the status
\* page of that task.  Every other request (the form, a rejected request)
\* leaves tasks and jobs as they were and is not answered with that redirect.
C26_SubmitAndPoll ==
    [][Answered =>
          IF AdmittedSubmission
          THEN /\ Len(tasks') = Len(tasks) + 1 /\ SubSeq(tasks', 1, Len(tasks)) = tasks
               /\ tasks'[Len(tasks')].status = "pending"
               /\ tasks'[Len(tasks')].user = lastResp'.user
               /\ tasks'[Len(tasks')].result_id = <<>>
               /\ tasks'[Len(tasks')].error_message = ""
               /\ Len(jobs') = Len(jobs) + 1 /\ SubSeq(jobs', 1, Len(jobs)) = jobs
               /\ Len(jobs') = Len(tasks')
               /\ jobs'[Len(jobs')].pc = "start"
               /\ jobs'[Len(jobs')].kind = lastSubmit'.view
               /\ lastSubmit'.kind = "redirect" /\ lastSubmit'.to = "generation_status"
               /\ lastSubmit'.task_id = Len(tasks')
          ELSE /\ tasks' = tasks /\ jobs' = jobs
               /\ lastSubmit'.kind # "redirect"]_vars

\* C26 witness: after requests for the form, a lesson submission passed the
\* limiter and was answered with the redirect to the status page of task 1.
C26_Witness ==
    /\ lastSubmit = RedirectToStatus("lesson", 1)
    /\ Len(tasks) = 1 /\ tasks[1].status = "pending" /\ jobs[1].pc = "start"
    /\ Len(log["alice"]) > 1

\* C30: a request the limiter rejects leaves the caller's stored timestamps
\* and their expiry, the history of admissions, the tasks, the jobs and the
\* library exactly as they were; the view is not called and the answer is the
\* limiter's own.
C30_RejectionChangesNothing ==
    [][(lastResp' # lastResp /\ lastResp'.kind = "rejected") =>
          /\ UNCHANGED <<cache, log, taskVars>>
          /\ lastSubmit'.kind = "rate_limited"]_vars

\* C30 witness: a lesson submission was rejected a second or more after the
\* caller's last admitted request, the stored list still full.
C30_Witness ==
    /\ lastSubmit = Refusal("lesson")
    /\ lastResp.kind = "rejected"
    /\ Len(cache["alice"].ts) = RequestsPerMinute
    /\ now >= cache["alice"].ts[RequestsPerMinute] + TicksPerSecond
    /\ tasks = <<>>

(***************************************************************************)
(* Claims about the book jobs, checked under SpecBook.                     *)
(***************************************************************************)

\* The book whose chapters the job writes.
JobBook(job) == IF job.kind = "content" THEN job.arg ELSE job.ent

\* The job stands in the chapter loop with the generation of chapter i failed
\* and the outcome not yet persisted: the client returned its error mapping
\* (body ""), or a fault was caught by the loop's own except.
ChapterFailed(job) ==
    \/ job.pc = "chapter_err"
    \/ job.pc = "chapter_save" /\ job.data \in {ChapterContent("errordict"), ErrorContent}

\* Every chapter that exists, except chapter c of book b, is as it was.
OtherChaptersKept(b, c) ==
    \A b2 \in 1..Len(books) : \A c2 \in 1..Len(books[b2].chapters) :
        (b2 # b \/ c2 # c) => books'[b2].chapters[c2] = books[b2].chapters[c2]

\* C12: a failed generation of one chapter does not fail the book job: no
\* fault of the generation call reaches the job's except branch; the step that
\* persists the failed chapter leaves the task and every other chapter alone
\* and goes on to the next chapter, or to completing the task after the last;
\* and the write that ends the try block stores 'completed'.
C12_ChapterFailureKeepsJobGoing ==
    [][\A k \in 1..Len(jobs) :
          /\ (jobs[k].pc = "chapter_gen" /\ jobs'[k].pc = "handler") =>
                 (jobs[k].kind = "book" /\ jobs'[k].err = AttrErrorMsg)
          /\ (ChapterFailed(jobs[k]) /\ jobs'[k].i # jobs[k].i /\ jobs'[k].pc # "handler") =>
                 /\ tasks' = tasks
                 /\ OtherChaptersKept(JobBook(jobs[k]), jobs[k].i)
                 /\ jobs'[k].i = jobs[k].i + 1
                 /\ jobs'[k].pc = IF jobs[k].i < jobs[k].n THEN "chapter_gen" ELSE "complete"
          /\ (jobs[k].pc = "complete" /\ tasks'[k] # tasks[k]) =>
                 tasks'[k].status = "completed"]_vars

\* C12 witness: a book-content job is over and its task 'completed'; the first
\* chapter holds the error text of a failed generation, the one after it a
\* generated body.
C12_Witness ==
    \E k \in 1..Len(jobs) :
        /\ jobs[k].kind = "content" /\ jobs[k].pc = "done"
        /\ tasks[k].status = "completed"
        /\ books[jobs[k].arg].chapters[1].content = ErrorContent
        /\ books[jobs[k].arg].chapters[2].content = ChapterContent("ok")

\* C13: the step that persists a chapter whose generation failed stores the
\* inline error message as the chapter's body: a non-empty text, neither the
\* empty text nor the body the chapter had before.
C13_FailedChapterHoldsErrorMessage ==
    [][\A k \in 1..Len(jobs) :
          (ChapterFailed(jobs[k]) /\ jobs'[k].i = jobs[k].i + 1) =>
              books'[JobBook(jobs[k])].chapters[jobs[k].i].content = ErrorContent]_vars

\* The job stands in the chapter loop.
InChapterLoop(job) == job.pc \in {"chapter_gen", "chapter_save", "chapter_err"}

\* C14: a book job works on its chapters strictly in outline order.  While it
\* stands at chapter i, chapters 1..i-1 are persisted and, in the outline job,
\* no later one exists; its chapter index moves only from i to i+1 and only in
\* the step that persists chapter i, so the provider call for chapter i+1 comes
\* after that; and the chapter at position i carries order index i (counted
\* from 0), so the order indices of a book's chapters are distinct.
C14_ChaptersInOutlineOrder ==
    /\ [][\A k \in 1..Len(jobs) :
             (InChapterLoop(jobs[k]) /\ InChapterLoop(jobs'[k]) /\ jobs'[k].i # jobs[k].i) =>
                 /\ jobs'[k].i = jobs[k].i + 1
                 /\ jobs'[k].pc = "chapter_gen"
                 /\ jobs[k].pc # "chapter_gen"
                 /\ Len(books'[JobBook(jobs[k])].chapters) >= jobs[k].i
                 /\ \/ jobs[k].kind = "book" /\ Len(books[JobBook(jobs[k])].chapters) = jobs[k].i - 1
                    \/ jobs[k].kind = "content" /\
                          books'[JobBook(jobs[k])].chapters[jobs[k].i].content
                              \in {jobs[k].data, ErrorContent}]_vars
    /\ [](\A k \in 1..Len(jobs) :
             (InChapterLoop(jobs[k]) /\ jobs[k].kind = "book") =>
                 Len(books[jobs[k].ent].chapters) = jobs[k].i - 1)
    /\ [](\A b \in 1..Len(books) : \A c, d \in 1..Len(books[b].chapters) :
             /\ books[b].chapters[c].order = c - 1
             /\ c # d => books[b].chapters[c].order # books[b].chapters[d].order)

\* C14 witness: an outline job has persisted its first chapter and is about to
\* ask the provider for the second.
C14_Witness ==
    \E k \in 1..Len(jobs) :
        /\ jobs[k].kind = "book" /\ jobs[k].pc = "chapter_gen" /\ jobs[k].i = 2
        /\ Len(books[jobs[k].ent].chapters) = 1

\* Chapter c of book b did not exist before the step.
NewChapter(b, c) == b > Len(books) \/ c > Len(books[b].chapters)

\* Job k took the step, and the step was no fault raised to its except branch.
Stepped(k) == jobs'[k] # jobs[k] /\ jobs'[k].pc # "handler"

\* A book-content job wrote chapter c of book b in the step.
WrittenByContentJob(b, c) ==
    \E k \in 1..Len(jobs) :
        /\ jobs[k].kind = "content" /\ jobs[k].arg = b /\ jobs[k].i = c
        /\ jobs[k].pc \in {"chapter_save", "chapter_err"}
        /\ Stepped(k)

RegenKinds == {"regen_lesson", "regen_book", "regen_chapter"}

\* C16: a regeneration job updates in place.  No step of it creates a lesson,
\* a book or a chapter (the number of each stays as it was); the only entity
\* it changes is the one its request named; and when it stores 'completed',
\* result_id is the identifier of that entity.
C16_RegenerationInPlace ==
    [][\A k \in 1..Len(jobs) :
          (jobs[k].kind \in RegenKinds /\ jobs'[k] # jobs[k]) =>
              /\ Len(lessons') = Len(lessons)
              /\ Len(books') = Len(books)
              /\ \A b \in 1..Len(books) :
                    Len(books'[b].chapters) = Len(books[b].chapters)
              /\ \A l \in 1..Len(lessons) :
                    lessons'[l] # lessons[l] =>
                        (jobs[k].kind = "regen_lesson" /\ jobs[k].arg = l)
              /\ \A b \in 1..Len(books) :
                    books'[b] # books[b] =>
                        \/ jobs[k].kind = "regen_book" /\ jobs[k].arg = b
                        \/ /\ jobs[k].kind = "regen_chapter" /\ jobs[k].arg[1] = b
                           /\ books'[b].title = books[b].title
                           /\ OtherChaptersKept(b, jobs[k].arg[2])
              /\ (tasks'[k].status = "completed" /\ tasks[k].status # "completed") =>
                    tasks'[k].result_id = <<jobs[k].arg>>]_vars

\* C16 witness: a lesson regeneration is over and 'completed' with the named
\* lesson as its result; that lesson holds the new content and is still the
\* only lesson.
C16_Witness ==
    \E k \in 1..Len(jobs) :
        /\ jobs[k].kind = "regen_lesson" /\ jobs[k].pc = "done"
        /\ tasks[k].status = "completed"
        /\ tasks[k].result_id = <<jobs[k].arg>>
        /\ lessons[jobs[k].arg].content = "errordict"
        /\ Len(lessons) = 1

(***************************************************************************)
(* Claims about the text chat, checked under SpecChat.                     *)
(***************************************************************************)

\* C17: a chat turn whose provider call raised a fault is answered 200 with
\* the one apology text as 'response', whatever the fault, and with the id of
\* the caller's conversation, whose stored history is the history the turn
\* found plus exactly one pair: the user's utterance and that apology.
C17_FaultedTurnRecordsApology ==
    lastChat.outcome.kind = "fault" =>
        /\ lastChat.status = 200
        /\ lastChat.response = Apology
        /\ lastChat.conversation_id \in 1..Len(conversations)
        /\ conversations[lastChat.conversation_id].user = lastChat.user
        /\ conversations[lastChat.conversation_id].history =
              Append(lastChat.before, [user |-> lastChat.message, ai |-> Apology])

\* C17 witness: the provider call of a turn in a conversation with earlier
\* pairs raised an authentication fault, and the turn was answered.
C17_Witness ==
    /\ lastChat.outcome.kind = "fault"
    /\ lastChat.outcome.fault = "authentication"
    /\ lastChat.status = 200
    /\ Len(lastChat.before) >= 1

\* C24: no request is answered with a provider call made on its own thread:
\* the answer of chat_api never holds what a provider call, made while the
\* request was being answered, came to.
C24_NoProviderCallInRequest ==
    lastChat.outcome.kind = "none"

(***************************************************************************)
(* Claims about chat turns side by side, checked under SpecTurns.          *)
(***************************************************************************)

\* The turns of conversation c that were handled: answered 200.
Handled(c) == {i \in 1..Len(turns) : turns[i].pc = "done" /\ turns[i].conversation_id = c}

IsPrefix(s, t) == Len(s) <= Len(t) /\ SubSeq(t, 1, Len(s)) = s

\* C35: the history of a conversation holds exactly one pair per handled
\* turn, that turn's utterance and reply, also when turns of one conversation
\* are handled side by side, and a step only appends to it.
C35_HistoryLosesNoTurn ==
    /\ [](\A c \in 1..Len(conversations) :
             /\ Len(conversations[c].history) = Cardinality(Handled(c))
             /\ \A i \in Handled(c) :
                   \E j \in 1..Len(conversations[c].history) :
                       conversations[c].history[j] =
                           [user |-> turns[i].message, ai |-> turns[i].response])
    /\ [][\A c \in 1..Len(conversations) :
             IsPrefix(conversations[c].history, conversations'[c].history)]_vars

(***************************************************************************)
(* Claims about the generation client, checked under SpecClient.           *)
(***************************************************************************)

ClientOps == {"generate_content", "chat", "chat_with_audio"}

\* C18: whatever the provider call comes to (a transport fault, an
\* authentication fault, a response without text, any response text), each of
\* generate_content, chat and chat_with_audio returns a value; none raises.
C18_ClientNeverRaises ==
    call.op \in ClientOps => call.ret.raised = "none"

\* C18 witness: generate_content met a fault inside its own try block after
\* the provider had answered (the TypeError of "'content' in None") and
\* returned its error mapping.
C18_Witness ==
    /\ call.op = "generate_content"
    /\ call.outcome.kind = "text"
    /\ call.outcome.text.value.type = "null"
    /\ call.ret.raised = "none"
    /\ call.ret.value.shape = "error"

\* C19: for every response text generate_content returns a mapping.
C19_ResultAlwaysMapping ==
    (call.op = "generate_content" /\ call.outcome.kind = "text") =>
        (call.ret.raised = "none" /\ call.ret.value.type = "object")

\* The call was generate_content and the response well-formed JSON.
WellFormedCall ==
    call.op = "generate_content" /\ call.outcome.kind = "text" /\ call.outcome.text.wf

\* C20 as claimed: for a well-formed JSON response generate_content returns
\* what json.loads returns for it.
C20_SameAsDirectParse ==
    WellFormedCall =>
        (call.ret.raised = "none" /\ call.ret.value = DirectParse(call.outcome.text))

\* One of the patterns of the table repair matches somewhere in x.
HasMatch(x) == \E step \in Steps : \E i \in 1..Len(x) : MatchEnd(step, x, i) # 0

\* x holds a flattened table row: two pipes next to each other on one line,
\* followed by a cell or a separator.
FlattenedRow(x) ==
    \E step \in {1, 4} : \E i \in 1..Len(x) :
        /\ MatchEnd(step, x, i) # 0
        /\ \A m \in i..(MatchEnd(step, x, i) - 1) : x[m] # "\n"

\* C20 as amended: for a well-formed JSON response generate_content returns
\* the parsed object with a string 'content' normalised: every other field as
\* parsed, the content unchanged when no table pattern occurs in it and
\* rewritten when it holds a flattened row.  An object without 'content', and
\* an array or a string in which 'content' does not occur, is returned as
\* parsed; for every other well-formed response the error mapping is returned.
C20_ParsedWithContentNormalised ==
    WellFormedCall =>
        LET v == call.outcome.text.value
            parsed == DirectParse(call.outcome.text)
            got == call.ret.value
        IN  /\ call.ret.raised = "none"
            /\ IF v.type = "object" /\ v.content = "string"
               THEN /\ [got EXCEPT !.text = <<>>] = [parsed EXCEPT !.text = <<>>]
                    /\ ~HasMatch(v.text) => got.text = v.text
                    /\ FlattenedRow(v.text) => got.text # v.text
               ELSE IF \/ v.type = "object" /\ v.content = "absent"
                       \/ v.type \in {"array", "string"} /\ ~v.flag
               THEN got = parsed
               ELSE got.shape = "error"

\* C20 witness: the response was a well-formed object whose content held the
\* end of a header row and the start of the separator row on one line.
C20_Witness ==
    /\ WellFormedCall
    /\ call.outcome.text.value.type = "object"
    /\ call.outcome.text.value.text = <<"a", "|", "|", "-">>
    /\ call.ret.value.text # call.outcome.text.value.text

\* C21: the table repair is idempotent: applied to its own result it returns
\* that result.
C21_FixTablesIdempotent ==
    call.op = "_fix_table_formatting" => FixTables(call.ret) = call.ret

\* The call was generate_content and the response text is rejected by
\* json.loads.
MalformedCall ==
    call.op = "generate_content" /\ call.outcome.kind = "text" /\ ~call.outcome.text.wf

ExpectedFields ==
    {"title", "summary", "description", "full_content", "content", "exercises", "quiz",
     "chapters", "conversational_practice"}

\* C29: for a response text that json.loads rejects, generate_content returns
\* the mapping of the first repair step that finds something: the content
\* mapping (the matched content, table-normalised) when the "content" pattern
\* matches; else the lesson fields when a non-empty full_content is found;
\* else the markdown mapping when a heading marker occurs; else the
\* parse-error mapping, which has every expected field.  No step's mapping is
\* returned when an earlier step found something.
C29_RepairPriority ==
    MalformedCall =>
        LET t == call.outcome.text
            found2 == t.value.content = "string"
            found3 == t.full
            found4 == t.heading
            got == call.ret.value
        IN  /\ call.ret.raised = "none"
            /\ got.shape = "content_only" <=> found2
            /\ got.shape = "lesson_fields" <=> (~found2 /\ found3)
            /\ got.shape = "markdown" <=> (~found2 /\ ~found3 /\ found4)
            /\ got.shape = "parse_error" <=> (~found2 /\ ~found3 /\ ~found4)
            /\ got.shape = "content_only" =>
                   (ResultKeys(got.shape) = {"content"} /\ got.text = FixTables(t.value.text))
            /\ got.shape = "parse_error" => ResultKeys(got.shape) = ExpectedFields

\* C29 witness: the text held a "content" match, a full_content field and a
\* heading marker at once, and the content mapping was returned.
C29_Witness ==
    /\ MalformedCall
    /\ call.outcome.text.value.content = "string"
    /\ call.outcome.text.full /\ call.outcome.text.heading
    /\ call.ret.value.shape = "content_only"

(***************************************************************************)
(* Claims about the status page and the status API, checked under          *)
(* SpecStatus.                                                             *)
(***************************************************************************)

\* A lookup was answered in the step.
Polled(view) == lastLookup' # lastLookup /\ lastLookup'.view = view

StatusKeys == {"status", "task_type", "topic"}

\* C22: the data of a status-API response always has status, task_type and
\* topic, taken from the task; it has redirect_url exactly when the task is
\* 'completed', the URL being the path of the task's kind around result_id;
\* it has error exactly when the task is 'failed', the task's error message;
\* it has no other key.
C22_StatusResponseShape ==
    [][(Polled("api") /\ lastLookup'.found) =>
          LET t == tasks[lastLookup'.task]
              data == lastLookup'.data
          IN  /\ StatusKeys \subseteq DOMAIN data
              /\ DOMAIN data \subseteq StatusKeys \cup {"redirect_url", "error"}
              /\ data.status = t.status /\ data.task_type = t.task_type /\ data.topic = t.topic
              /\ "redirect_url" \in DOMAIN data <=> t.status = "completed"
              /\ "error" \in DOMAIN data <=> t.status = "failed"
              /\ t.status = "completed" =>
                    /\ data.redirect_url[2] = t.result_id
                    /\ t.task_type = "lesson" => data.redirect_url[1] = "/lesson/"
                    /\ t.task_type = "book" => data.redirect_url[1] = "/superuser/book/"
                    /\ t.task_type = "chapter" => data.redirect_url[1] = "/library/book/"
              /\ t.status = "failed" => data.error = t.error_message]_vars

\* C22 witness: the status API answered for a completed book task with the
\* preview URL of the new book, the second book of the library.
C22_Witness ==
    /\ lastLookup.view = "api" /\ lastLookup.found
    /\ lastLookup.data.status = "completed"
    /\ lastLookup.data.redirect_url = <<"/superuser/book/", <<2>>, "/preview/">>

\* The job is past its first write and before its last.
Working(job) ==
    job.pc \in {"generate", "persist", "chapter_gen", "chapter_save", "chapter_err", "complete"}

\* The entity with this id is in the table the job writes to, or the task
\* type names.
EntityOfJob(job, id) ==
    IF job.kind \in {"lesson", "regen_lesson"} THEN id \in 1..Len(lessons)
    ELSE id \in 1..Len(books)
EntityOfType(type, id) ==
    IF type = "lesson" THEN id \in 1..Len(lessons) ELSE id \in 1..Len(books)

\* C27: a job that is at or past its provider call and has not ended its
\* try block has stored 'processing'; the step that stores 'completed' is
\* taken from the last place of the try block, with the entity already in the
\* store before the step, and stores that entity's id as result_id; a job that
\* creates its entity reaches that place only with the entity created by
\* itself; so every status answer that says 'completed' names an entity that
\* exists.
C27_JobStepOrder ==
    /\ [](\A k \in 1..Len(jobs) : Working(jobs[k]) => tasks[k].status = "processing")
    /\ [][\A k \in 1..Len(jobs) :
             /\ (tasks'[k].status = "completed" /\ tasks[k].status # "completed") =>
                    /\ jobs[k].pc = "complete"
                    /\ EntityOfJob(jobs[k], ResultId(jobs[k]))
                    /\ tasks'[k].result_id = <<ResultId(jobs[k])>>
             /\ (jobs[k].pc = "persist" /\ Stepped(k)
                    /\ jobs[k].kind = "lesson") =>
                    /\ lessons' = Append(lessons, [user |-> tasks[k].user,
                                                    content |-> jobs[k].data])
                    /\ ResultId(jobs'[k]) = Len(lessons')
             /\ (jobs[k].pc = "persist" /\ Stepped(k)
                    /\ jobs[k].kind = "book") =>
                    /\ Len(books') = Len(books) + 1
                    /\ ResultId(jobs'[k]) = Len(books')
             /\ (jobs[k].pc = "persist" /\ Stepped(k)
                    /\ jobs[k].kind = "regen_lesson") =>
                    /\ lessons'[jobs[k].arg].content = jobs[k].data
                    /\ ResultId(jobs'[k]) = jobs[k].arg]_vars
    /\ []((lastLookup.view = "api" /\ lastLookup.found
               /\ lastLookup.data.status = "completed") =>
              /\ Len(lastLookup.data.redirect_url[2]) = 1
              /\ EntityOfType(lastLookup.data.task_type, lastLookup.data.redirect_url[2][1]))

\* C27 witness: the status API said 'completed' for a lesson job, naming the
\* lesson the job had created, the second lesson of the library.
C27_Witness ==
    /\ lastLookup.view = "api" /\ lastLookup.found
    /\ lastLookup.data.status = "completed"
    /\ lastLookup.data.redirect_url = <<"/lesson/", <<2>>, "/">>
    /\ Len(lessons) = 2
    /\ jobs[lastLookup.task].kind = "lesson"

\* C28: for a provider call that fails (transport, authentication) the
\* client hands the lesson job its error mapping; the job's domain write then
\* creates a lesson with the fields of that mapping, owned by the requester,
\* and goes on to its last write, which stores 'completed' with that lesson
\* as result_id (a regeneration asked for in between may have rewritten the
\* lesson by then); and a task is stored 'failed' only with the message of a
\* fault of the store, of the client's construction, or of the job's own
\* field lookup.
C28_ProviderFailureCompletesLesson ==
    /\ [](\A o \in ProviderFailures : LessonData(o) = "errordict")
    /\ [][\A k \in 1..Len(jobs) :
             /\ (jobs[k].kind = "lesson" /\ jobs[k].pc = "persist"
                    /\ jobs[k].data = "errordict" /\ Stepped(k)) =>
                    /\ lessons' = Append(lessons, [user |-> tasks[k].user,
                                                    content |-> "errordict"])
                    /\ jobs'[k].pc = "complete" /\ jobs'[k].ent = Len(lessons')
                    /\ tasks' = tasks
             /\ (jobs[k].kind = "lesson" /\ jobs[k].pc = "complete"
                    /\ tasks'[k] # tasks[k]) =>
                    /\ tasks'[k].status = "completed"
                    /\ tasks'[k].result_id = <<jobs[k].ent>>
                    /\ jobs[k].ent \in 1..Len(lessons)
                    /\ lessons[jobs[k].ent].user = tasks[k].user
             /\ (tasks'[k].status = "failed" /\ tasks[k].status # "failed") =>
                    /\ jobs[k].pc = "handler"
                    /\ jobs[k].err \in FaultMsgs \cup {AttrErrorMsg}]_vars

\* C28 witness: a lesson job is over, its task 'completed' with the second
\* lesson as result, and that lesson holds the client's error mapping.
C28_Witness ==
    \E k \in 1..Len(jobs) :
        /\ jobs[k].kind = "lesson" /\ jobs[k].pc = "done"
        /\ tasks[k].status = "completed" /\ tasks[k].result_id = <<2>>
        /\ lessons[2] = [user |-> tasks[k].user, content |-> "errordict"]

\* C23: a request for the status page or the status API, wherever it falls
\* among the job's steps, changes neither the tasks, nor the jobs (their
\* place in their function and what they hold), nor the lessons and books,
\* nor the rate limiter's stored timestamps.
C23_PollingObserves ==
    [][(Polled("api") \/ Polled("page")) =>
          UNCHANGED <<tasks, jobs, lessons, books, cache, log, now>>]_vars

\* C23 witness: the status page was requested while the job stood between
\* its provider call and its domain write, the task 'processing'.
C23_Witness ==
    /\ lastLookup.view = "page" /\ lastLookup.found
    /\ jobs[lastLookup.task].pc = "persist"
    /\ tasks[lastLookup.task].status = "processing"

(***************************************************************************)
(* Claims about the status lookup, checked under SpecPoll.                 *)
(***************************************************************************)

\* C10 as claimed: a lookup of an existing task finds it exactly when the
\* caller is its requester or a superuser.
C10_OwnerOrSuperuserSees ==
    lastLookup.exists =>
        (lastLookup.found <=>
            \/ tasks[lastLookup.task].user = lastLookup.caller
            \/ is_superuser(lastLookup.caller))

\* C10 as amended: a lookup finds the task exactly when the task exists and
\* the caller is its requester; every other caller, a superuser included,
\* gets NotFound.
C10_OnlyOwnerSees ==
    /\ lastLookup.found => lastLookup.exists
    /\ lastLookup.exists =>
          (lastLookup.found <=> tasks[lastLookup.task].user = lastLookup.caller)

\* C10 witness: a superuser looked up another user's task and got NotFound,
\* while a task of the superuser's own exists too.
C10_Witness ==
    /\ lastLookup.exists
    /\ is_superuser(lastLookup.caller)
    /\ tasks[lastLookup.task].user # lastLookup.caller
    /\ ~lastLookup.found
    /\ \E k \in 1..Len(tasks) : tasks[k].user = lastLookup.caller

(***************************************************************************)
(* Claims about the rate limiter, checked under SpecRate.                  *)
(***************************************************************************)

\* C6: a request that arrives while 15 admitted requests of the caller are
\* less than 60 seconds old is rejected, and no 60-second window (open at its
\* old end) holds more than 15 admitted requests of one caller.
C6_WindowCeiling ==
    /\ lastResp.recent >= RequestsPerMinute => lastResp.kind = "rejected"
    /\ \A u \in Users : \A i \in 1..Len(log[u]) :
          Cardinality({j \in 1..Len(log[u]) :
                         /\ log[u][j] > log[u][i] - WindowTicks
                         /\ log[u][j] <= log[u][i]}) <= RequestsPerMinute

\* C6 witness: a request was rejected with exactly 15 admitted requests in the
\* window, admitted at more than one instant.
C6_Witness ==
    /\ lastResp.kind = "rejected"
    /\ lastResp.recent = RequestsPerMinute
    /\ \E i, j \in 1..Len(log["alice"]) : log["alice"][i] # log["alice"][j]

\* C7: every rejection carries wait_seconds >= 1.
C7_PositiveRetryAfter ==
    lastResp.kind = "rejected" => lastResp.wait >= 1

\* C8: the request that follows a rejection, made when the oldest stored
\* timestamp is at least 60 seconds old, is admitted and its time is the last
\* entry of the stored list.
C8_Recovery ==
    (lastResp.prev = "rejected" /\ lastResp.oldest >= WindowTicks) =>
        /\ lastResp.kind = "admitted"
        /\ Len(cache[lastResp.user].ts) > 0
        /\ cache[lastResp.user].ts[Len(cache[lastResp.user].ts)] = lastResp.at

\* C8 witness: a rejected caller came back exactly 60 seconds after its oldest
\* stored timestamp and was admitted.
C8_Witness ==
    /\ lastResp.prev = "rejected"
    /\ lastResp.oldest = WindowTicks
    /\ lastResp.kind = "admitted"

\* C31: the request that follows a rejection by exactly the reported
\* wait_seconds, with no request in between, is admitted, whatever the age of
\* the oldest surviving timestamp was at the rejection.
C31_RetryAfterExact ==
    [][(/\ lastResp.kind = "rejected"
        /\ lastResp' # lastResp
        /\ lastResp'.user = lastResp.user
        /\ lastResp'.at = lastResp.at + lastResp.wait * TicksPerSecond)
          => lastResp'.kind = "admitted"]_vars

\* C34: the expiry of a cache entry never changes a decision.  When an entry
\* expires every timestamp in it is at least 60 seconds old, and the list the
\* limiter decides on is the one it would get from a store that keeps every
\* entry for ever (so the lists written back are the same as well).
C34_ExpiryNeverDecides ==
    \A u \in Users :
        /\ \A i \in 1..Len(cache[u].ts) : cache[u].exp - cache[u].ts[i] >= WindowTicks
        /\ Timestamps(u) = SelectSeq(cache[u].ts, LAMBDA t : Fresh(t, now - WindowTicks))

\* C34 witness: a rejected caller came back after its entry had expired and
\* was admitted.
C34_Witness ==
    /\ lastResp.prev = "rejected"
    /\ lastResp.kind = "admitted"
    /\ lastResp.oldest >= CacheTicks

(***************************************************************************)
(* Claims about the rate limiter under concurrent requests, checked under  *)
(* SpecRace.                                                               *)
(***************************************************************************)

\* How often t occurs in seq.
Count(seq, t) == Cardinality({j \in 1..Len(seq) : seq[j] = t})

\* C32: under any interleaving of the reads and writes of concurrent admission
\* checks of one caller, the stored list never holds more than 15 entries, and
\* every stored entry is the time of a request that was admitted (no time is
\* stored more often than requests bearing it were admitted).
C32_StoredListBounded ==
    \A u \in Users :
        /\ Len(cache[u].ts) <= RequestsPerMinute
        /\ \A i \in 1..Len(cache[u].ts) :
              Count(cache[u].ts, cache[u].ts[i]) <= Count(log[u], cache[u].ts[i])

\* C32 witness: two checks overlapped and one write replaced the other: the
\* stored list is full, and more requests were admitted within one window
\* than it holds.
C32_Witness ==
    /\ Len(cache["alice"].ts) = RequestsPerMinute
    /\ Len(log["alice"]) > RequestsPerMinute
    /\ \A j \in 1..Len(log["alice"]) : now - log["alice"][j] < WindowTicks

\* C33: a request is rejected only if at least 15 requests of its caller were
\* admitted with a time in the 60 seconds before it: overlapping checks admit
\* more, never less.
C33_RacesOnlyOverAdmit ==
    lastResp.kind = "rejected" => lastResp.recent >= RequestsPerMinute

\* C33 witness: a request was rejected after overlapping checks had admitted
\* more than 15 requests in its window.
C33_Witness ==
    /\ lastResp.kind = "rejected"
    /\ lastResp.recent > RequestsPerMinute

====
